---- MODULE Spec2Model ----
(***************************************************************************)
(* Model of delivery_manager.py: the SQLite-backed DeliveryManager.  The   *)
(* state is the content of the two tables (deliveries, tracking_events),   *)
(* the wall clock read by datetime.now(), and the outcome of the last      *)
(* DeliveryManager call.  Every public method is one action; a method that *)
(* commits twice (create, update_status) is one action whose outcome       *)
(* depends on where, if anywhere, the storage layer raised.                *)
(***************************************************************************)
EXTENDS Integers, Sequences, FiniteSets, TLC

\* ---- bounds ----
MaxWrites == 3         \* committed writes to table deliveries per behaviour
MaxTime  == 1          \* clock values are 0..MaxTime

\* ---- program constants ----
NULL == -1             \* SQL NULL / Python None in an integer-valued column

DeliveryStatus ==
    {"pending", "picked_up", "in_transit", "out_for_delivery",
     "delivered", "failed_attempt", "returned", "cancelled"}

\* values the tracking-number generator is observed to produce
TrackingNumbers == {"BR0000000001", "BR0000000002"}

\* (sender, recipient, destination) triples passed to create: one with all
\* three given, one with all three empty
CreateArgs == { <<"Alice", "Bob", "123 Main St">>, <<"", "", "">> }

\* new_status strings passed to update_status: the parameter is a plain str
StatusArgs == {"in_transit", "delivered", "bogus"}
ValidStatusArgs == StatusArgs \cap DeliveryStatus

\* where the storage layer raises during a call: nowhere, at the first
\* statement (INSERT / UPDATE of deliveries), or at the INSERT of the event
Faults == {"none", "statement", "event"}

Times == 0..MaxTime

\* processes (invocations of main) that share the database file and run
\* update_status at the same time
Procs == {1, 2}

\* a process that has not called update_status yet
Idle == [pc |-> "start", tn |-> "", new_status |-> "", now |-> 0, id |-> 0]


VARIABLES
    deliveries,   \* table deliveries, in rowid order
    events,       \* table tracking_events, in rowid order
    clock,        \* value datetime.now() returns at this moment
    op,           \* the last call: name and arguments
    ret,          \* its outcome: returned value or raised exception
    trail,        \* history variable: per delivery id, the statuses written
                  \* to its row by committed statements, in order
    procs         \* per concurrent process running update_status: where it
                  \* stands in the method and its local variables

vars == <<deliveries, events, clock, op, ret, trail, procs>>

\* ---- outcomes of a call ----
Returned(v) == [kind |-> "ok",    err |-> "",  val |-> v]
ReturnedNone == [kind |-> "none", err |-> "",  val |-> <<>>]
Raised(e)   == [kind |-> "raise", err |-> e,   val |-> <<>>]

Call(name, tn, status, fault) ==
    [name |-> name, tn |-> tn, status |-> status, fault |-> fault]

\* ---- helpers over the tables ----
RowIdx(tn) == {i \in 1..Len(deliveries) : deliveries[i].tracking_number = tn}

Exists(tn) == RowIdx(tn) # {}

Row(tn) == deliveries[CHOOSE i \in RowIdx(tn) : TRUE]

\* _row_to_delivery: DeliveryStatus(row["status"]) raises ValueError on a
\* string that is not a member of the enumeration
Readable(row) == row.status \in DeliveryStatus

\* variant: sender and recipient stored in each other's column
NewDeliverySwapped(args, tn, now) ==
    [id |-> Len(deliveries) + 1, tracking_number |-> tn,
     sender |-> args[2], recipient |-> args[1], destination |-> args[3],
     weight_kg |-> 0, status |-> "pending",
     estimated_delivery |-> NULL, actual_delivery |-> NULL,
     courier |-> "", notes |-> "", created_at |-> now, updated_at |-> now]

\* the Delivery built by create (lines 155-159) with the defaults of the
\* dataclass, id as assigned by cur.lastrowid
NewDelivery(args, tn, now) ==
    [id |-> Len(deliveries) + 1, tracking_number |-> tn,
     sender |-> args[1], recipient |-> args[2], destination |-> args[3],
     weight_kg |-> 0, status |-> "pending",
     estimated_delivery |-> NULL, actual_delivery |-> NULL,
     courier |-> "", notes |-> "", created_at |-> now, updated_at |-> now]

\* variant: the column declared without UNIQUE
NoUniqueViolation(tn) == FALSE

\* the UNIQUE constraint on deliveries.tracking_number
UniqueViolation(tn) == Exists(tn)

\* variant: the new value always wins
CoalesceFirst(a, b) == a

Coalesce(a, b) == IF a # NULL THEN a ELSE b

\* variant: the statement without its WHERE clause
UpdateAllRows(tn, new_status, actual, now) ==
    [i \in 1..Len(deliveries) |->
        [deliveries[i] EXCEPT !.status = new_status,
                              !.actual_delivery = Coalesce(actual, @),
                              !.updated_at = now]]

\* variant: the statement also sets created_at
UpdateRowsRestamped(tn, new_status, actual, now) ==
    [i \in 1..Len(deliveries) |->
        IF deliveries[i].tracking_number = tn
        THEN [deliveries[i] EXCEPT !.status = new_status,
                                   !.actual_delivery = Coalesce(actual, @),
                                   !.updated_at = now,
                                   !.created_at = now]
        ELSE deliveries[i]]

\* variant: a transition guard, rows in a closed status are not rewritten
UpdateOpenRows(tn, new_status, actual, now) ==
    [i \in 1..Len(deliveries) |->
        IF /\ deliveries[i].tracking_number = tn
           /\ deliveries[i].status \notin {"delivered", "returned", "cancelled"}
        THEN [deliveries[i] EXCEPT !.status = new_status,
                                   !.actual_delivery = Coalesce(actual, @),
                                   !.updated_at = now]
        ELSE deliveries[i]]

\* UPDATE deliveries SET status=?, actual_delivery=COALESCE(?,actual_delivery),
\*        updated_at=? WHERE tracking_number=?
UpdateRows(tn, new_status, actual, now) ==
    [i \in 1..Len(deliveries) |->
        IF deliveries[i].tracking_number = tn
        THEN [deliveries[i] EXCEPT !.status = new_status,
                                   !.actual_delivery = Coalesce(actual, @),
                                   !.updated_at = now]
        ELSE deliveries[i]]

\* variant: one event per shipment, a later one takes the place of the earlier
LogEventLatestOnly(delivery_id, status, location, message, ts) ==
    LET old == {k \in 1..Len(events) : events[k].delivery_id = delivery_id}
        new == [id |-> Len(events) + 1, delivery_id |-> delivery_id,
                status |-> status, location |-> location,
                message |-> message, timestamp |-> ts]
    IN  IF old = {} THEN Append(events, new)
        ELSE [k \in 1..Len(events) |->
                 IF k \in old THEN [new EXCEPT !.id = k] ELSE events[k]]

\* variant: the event is attached to the row count instead of the given id
LogEventLastRow(delivery_id, status, location, message, ts) ==
    Append(events, [id |-> Len(events) + 1, delivery_id |-> Len(deliveries),
                    status |-> status, location |-> location,
                    message |-> message, timestamp |-> ts])

\* _log_event: INSERT INTO tracking_events
LogEvent(delivery_id, status, location, message, ts) ==
    Append(events, [id |-> Len(events) + 1, delivery_id |-> delivery_id,
                    status |-> status, location |-> location,
                    message |-> message, timestamp |-> ts])

RECURSIVE SumLen(_)
SumLen(s) == IF s = <<>> THEN 0 ELSE Len(Head(s)) + SumLen(Tail(s))

\* rows inserted plus rows rewritten so far
Writes == SumLen(trail)

Init ==
    /\ deliveries = <<>>
    /\ events = <<>>
    /\ clock = 0
    /\ op = Call("init", "", "", "none")
    /\ ret = ReturnedNone
    /\ trail = <<>>
    /\ procs = [p \in Procs |-> Idle]

\* time passes between two calls
Tick ==
    /\ UNCHANGED procs
    /\ clock < MaxTime
    /\ clock' = clock + 1
    /\ UNCHANGED <<deliveries, events, op, ret, trail>>

\* DeliveryManager.create; tn is the number the default factory of
\* Delivery.tracking_number yields, lag is the time that passes between the
\* datetime.now() of create and the one of _log_event (when no timestamp is
\* stored, the passing of time is left to Tick)
Create(args, tn, fault, lag) ==
    /\ UNCHANGED procs
    /\ Writes < MaxWrites
    /\ clock + lag <= MaxTime
    /\ fault # "none" => lag = 0
    /\ op' = Call("create", tn, "pending", fault)
    /\ LET now == clock
           d   == NewDelivery(args, tn, now)
       IN  IF fault = "statement"
           THEN /\ ret' = Raised("OperationalError")
                /\ UNCHANGED <<deliveries, events, clock, trail>>
           ELSE IF UniqueViolation(tn)
           THEN /\ ret' = Raised("IntegrityError")
                /\ UNCHANGED <<deliveries, events, clock, trail>>
           ELSE /\ deliveries' = Append(deliveries, d)
                /\ trail' = Append(trail, <<"pending">>)
                /\ clock' = clock + lag
                /\ IF fault = "event"
                   THEN /\ ret' = Raised("OperationalError")
                        /\ UNCHANGED events
                   ELSE /\ events' = LogEvent(d.id, "pending", "",
                                              "Shipment created", clock + lag)
                        /\ ret' = Returned(<<d>>)

\* DeliveryManager.get
GetOutcome(tn) ==
    IF ~Exists(tn) THEN ReturnedNone
    ELSE IF ~Readable(Row(tn)) THEN Raised("ValueError")
    ELSE Returned(<<Row(tn)>>)

\* variant: the delivery time is stamped on every status change
ActualAlways(new_status, now) == now

\* actual = now if new_status == DeliveryStatus.DELIVERED.value else None
ActualFor(new_status, now) == IF new_status = "delivered" THEN now ELSE NULL

\* DeliveryManager.update_status; lag as in Create
UpdateStatus(tn, new_status, location, message, fault, lag) ==
    /\ UNCHANGED procs
    /\ Writes < MaxWrites
    /\ clock + lag <= MaxTime
    /\ fault # "none" => lag = 0
    /\ op' = Call("update_status", tn, new_status, fault)
    /\ LET now == clock
       IN  IF fault = "statement"
           THEN /\ ret' = Raised("OperationalError")
                /\ UNCHANGED <<deliveries, events, clock, trail>>
           ELSE /\ deliveries' = UpdateRows(tn, new_status,
                                            ActualFor(new_status, now), now)
                /\ trail' = [i \in 1..Len(trail) |->
                                IF i \in RowIdx(tn)
                                THEN Append(trail[i], new_status)
                                ELSE trail[i]]
                \* d = self.get(tracking_number), on the updated table
                /\ IF GetOutcome(tn)'.kind # "ok"
                   THEN /\ ret' = GetOutcome(tn)'
                        /\ UNCHANGED <<events, clock>>
                   ELSE /\ clock' = clock + lag
                        /\ IF fault = "event"
                           THEN /\ ret' = Raised("OperationalError")
                                /\ UNCHANGED events
                           ELSE /\ events' = LogEvent(Row(tn).id, new_status,
                                                      location, message,
                                                      clock + lag)
                                /\ ret' = GetOutcome(tn)'

\* cmd_update: what the command prints for the outcome of update_status
CmdUpdate(r) ==
    IF r.kind = "ok" THEN "updated"
    ELSE IF r.kind = "none" THEN "Tracking number not found"
    ELSE r.err

Get(tn) ==
    /\ UNCHANGED procs
    /\ op' = Call("get", tn, "", "none")
    /\ ret' = GetOutcome(tn)
    /\ UNCHANGED <<deliveries, events, clock, trail>>

\* variant: the SELECT without its WHERE clause
AllEventIdx(id) == 1..Len(events)

\* SELECT * FROM tracking_events WHERE delivery_id=?
EventIdx(id) == {i \in 1..Len(events) : events[i].delivery_id = id}

\* ... ORDER BY timestamp: every arrangement of the selected rows in which
\* timestamps never decrease; the statement names no second sort key, so the
\* order of rows with equal timestamps is whatever the engine yields
OrderedByTimestamp(id) ==
    LET I == EventIdx(id)
        n == Cardinality(I)
    IN  { [k \in 1..n |-> events[f[k]]] :
            f \in { g \in [1..n -> I] :
                      /\ \A a, b \in 1..n : a # b => g[a] # g[b]
                      /\ \A a, b \in 1..n :
                           a < b => events[g[a]].timestamp
                                      <= events[g[b]].timestamp } }

\* DeliveryManager.history
HistoryOutcomes(tn) ==
    IF ~Exists(tn) THEN {Returned(<<>>)}
    ELSE IF ~Readable(Row(tn)) THEN {Raised("ValueError")}
    ELSE {Returned(h) : h \in OrderedByTimestamp(Row(tn).id)}

History(tn) ==
    /\ UNCHANGED procs
    /\ op' = Call("history", tn, "", "none")
    /\ ret' \in HistoryOutcomes(tn)
    /\ UNCHANGED <<deliveries, events, clock, trail>>

\* status filters passed to list_deliveries; "" stands for the falsy values
\* (None, "") with which the method adds no condition
ListFilters == {"", "pending", "delivered"}

\* SELECT * FROM deliveries WHERE 1=1 [AND status=?]
ListIdx(status) ==
    {i \in 1..Len(deliveries) : status = "" \/ deliveries[i].status = status}

\* ... ORDER BY updated_at DESC: every arrangement of the selected rows in
\* which updated_at never increases (no second sort key)
OrderedByUpdatedDesc(status) ==
    LET I == ListIdx(status)
        n == Cardinality(I)
    IN  { [k \in 1..n |-> deliveries[f[k]]] :
            f \in { g \in [1..n -> I] :
                      /\ \A a, b \in 1..n : a # b => g[a] # g[b]
                      /\ \A a, b \in 1..n :
                           a < b => deliveries[g[a]].updated_at
                                      >= deliveries[g[b]].updated_at } }

\* DeliveryManager.list_deliveries: every selected row goes through
\* _row_to_delivery
ListOutcomes(status) ==
    IF \E i \in ListIdx(status) : ~Readable(deliveries[i])
    THEN {Raised("ValueError")}
    ELSE {Returned(l) : l \in OrderedByUpdatedDesc(status)}

List(status) ==
    /\ UNCHANGED procs
    /\ op' = Call("list", "", status, "none")
    /\ ret' \in ListOutcomes(status)
    /\ UNCHANGED <<deliveries, events, clock, trail>>

\* Delivery.is_active
IsActive(d) == d.status \notin {"delivered", "returned", "cancelled"}

\* DeliveryManager.stats, computed from the items list_deliveries() returned
StatsOf(items) ==
    LET idx == 1..Len(items)
        seen == {items[k].status : k \in idx}
    IN  [total |-> Len(items),
         active |-> Cardinality({k \in idx : IsActive(items[k])}),
         by_status |-> [st \in seen |->
                          Cardinality({k \in idx : items[k].status = st})]]

StatsOutcomes ==
    {IF r.kind = "ok" THEN Returned(<<StatsOf(r.val)>>) ELSE r :
        r \in ListOutcomes("")}

Stats ==
    /\ UNCHANGED procs
    /\ op' = Call("stats", "", "", "none")
    /\ ret' \in StatsOutcomes
    /\ UNCHANGED <<deliveries, events, clock, trail>>

\* DeliveryManager.export_json: the records written to the file, one per item
\* of list_deliveries(), status as its string value
ExportJson ==
    /\ UNCHANGED procs
    /\ op' = Call("export", "", "", "none")
    /\ ret' \in ListOutcomes("")
    /\ UNCHANGED <<deliveries, events, clock, trail>>

Next ==
    \/ Tick
    \/ \E args \in CreateArgs, tn \in TrackingNumbers, f \in Faults,
          lag \in 0..1 :
          Create(args, tn, f, lag)
    \/ \E tn \in TrackingNumbers, st \in StatusArgs, f \in Faults, lag \in 0..1 :
          UpdateStatus(tn, st, "", "", f, lag)
    \/ \E tn \in TrackingNumbers : Get(tn)
    \/ \E tn \in TrackingNumbers : History(tn)

Spec == Init /\ [][Next]_vars

\* the same program when every call succeeds: the storage layer never raises
\* and update_status is passed declared statuses only
NextOK ==
    \/ Tick
    \/ \E args \in CreateArgs, tn \in TrackingNumbers, lag \in 0..1 :
          /\ ~Exists(tn)
          /\ Create(args, tn, "none", lag)
    \/ \E tn \in TrackingNumbers, st \in ValidStatusArgs, lag \in 0..1 :
          /\ Exists(tn)
          /\ UpdateStatus(tn, st, "", "", "none", lag)
    \/ \E tn \in TrackingNumbers : Get(tn)
    \/ \E tn \in TrackingNumbers : History(tn)

SpecOK == Init /\ [][NextOK]_vars

\* the program when the storage layer never raises and update_status is
\* passed each of the eight declared statuses
NextStatus ==
    \/ Tick
    \/ \E args \in CreateArgs, tn \in TrackingNumbers, lag \in 0..1 :
          /\ ~Exists(tn)
          /\ Create(args, tn, "none", lag)
    \/ \E tn \in TrackingNumbers, st \in DeliveryStatus, lag \in 0..1 :
          /\ Exists(tn)
          /\ UpdateStatus(tn, st, "", "", "none", lag)
    \/ \E tn \in TrackingNumbers : Get(tn)

SpecStatus == Init /\ [][NextStatus]_vars

\* every method of DeliveryManager, the reading ones included; the reads do
\* not look at what create was given, so one triple of arguments is enough
NextAll ==
    \/ Tick
    \/ \E tn \in TrackingNumbers, f \in Faults, lag \in 0..1 :
          Create(<<"Alice", "Bob", "123 Main St">>, tn, f, lag)
    \/ \E tn \in TrackingNumbers, st \in StatusArgs, f \in Faults, lag \in 0..1 :
          UpdateStatus(tn, st, "", "", f, lag)
    \/ \E tn \in TrackingNumbers : Get(tn)
    \/ \E tn \in TrackingNumbers : History(tn)
    \/ \E st \in ListFilters : List(st)
    \/ Stats
    \/ ExportJson

SpecAll == Init /\ [][NextAll]_vars

\* update_status run by process p at the same time as by the other one. Each
\* `with self._conn() as conn: ... conn.commit()` block is one transaction on
\* its own connection, so the method is four steps between which the other
\* process may run.

\* now = datetime.now().isoformat(); actual = ...
Begin(p, tn, new_status) ==
    /\ procs[p].pc = "start"
    /\ Writes + Cardinality({q \in Procs : procs[q].pc = "update"}) < MaxWrites
    /\ procs' = [procs EXCEPT ![p] = [pc |-> "update", tn |-> tn,
                                      new_status |-> new_status,
                                      now |-> clock, id |-> 0]]
    /\ UNCHANGED <<deliveries, events, clock, op, ret, trail>>

\* the UPDATE of deliveries and its commit
UpdateTxn(p) ==
    /\ procs[p].pc = "update"
    /\ deliveries' = UpdateRows(procs[p].tn, procs[p].new_status,
                                ActualFor(procs[p].new_status, procs[p].now),
                                procs[p].now)
    /\ trail' = [i \in 1..Len(trail) |->
                    IF i \in RowIdx(procs[p].tn)
                    THEN Append(trail[i], procs[p].new_status)
                    ELSE trail[i]]
    /\ procs' = [procs EXCEPT ![p].pc = "get"]
    /\ UNCHANGED <<events, clock, op, ret>>

\* d = self.get(tracking_number); if d: ...
Lookup(p) ==
    /\ procs[p].pc = "get"
    /\ LET r == GetOutcome(procs[p].tn)
       IN  procs' = [procs EXCEPT
                        ![p].pc = IF r.kind = "ok" THEN "log" ELSE "done",
                        ![p].id = IF r.kind = "ok" THEN r.val[1].id ELSE 0]
    /\ UNCHANGED <<deliveries, events, clock, op, ret, trail>>

\* self._log_event(d.id, new_status, ...); return d
LogEventTxn(p) ==
    /\ procs[p].pc = "log"
    /\ events' = LogEvent(procs[p].id, procs[p].new_status, "", "", clock)
    /\ procs' = [procs EXCEPT ![p].pc = "done"]
    /\ UNCHANGED <<deliveries, clock, op, ret, trail>>

\* shipments are created, then two processes each run one update_status
NextConc ==
    \/ Tick
    \/ \E args \in CreateArgs, tn \in TrackingNumbers, lag \in 0..1 :
          /\ ~Exists(tn)
          /\ \A p \in Procs : procs[p].pc = "start"
          /\ Create(args, tn, "none", lag)
    \/ \E p \in Procs, tn \in TrackingNumbers, st \in ValidStatusArgs :
          Begin(p, tn, st)
    \/ \E p \in Procs : UpdateTxn(p)
    \/ \E p \in Procs : Lookup(p)
    \/ \E p \in Procs : LogEventTxn(p)

SpecConc == Init /\ [][NextConc]_vars

\* ---------------------------------------------------------------------------
\* Properties
\* ---------------------------------------------------------------------------

\* C1: between operations every stored shipment has at least one tracking
\* event and every stored tracking event references a stored shipment, also
\* after a create whose event append raised.
C1_ShipmentHasCreationEvent ==
    /\ \A i \in 1..Len(deliveries) : EventIdx(deliveries[i].id) # {}
    /\ \A j \in 1..Len(events) :
          \E i \in 1..Len(deliveries) : deliveries[i].id = events[j].delivery_id

\* C2: an update_status call on an existing shipment that ends in an error
\* leaves the shipment rows and the events as they were before the call
\* (stated here for calls that pass a declared status).
C2_UpdateStatusAtomic ==
    [][(/\ op'.name = "update_status"
        /\ op'.status \in DeliveryStatus
        /\ ret'.kind = "raise")
          => /\ deliveries' = deliveries
             /\ events' = events]_vars

\* number of rows history selects for a delivery id
HistoryLen(id) == Cardinality(EventIdx(id))

Statuses(h) == [k \in 1..Len(h) |-> h[k].status]

Range(f) == {f[x] : x \in DOMAIN f}

\* a step in which create stored a shipment and returned it
CreateOkStep ==
    op'.name = "create" /\ ret'.kind = "ok" /\ deliveries' # deliveries

\* a step in which update_status returned the shipment after logging its event
UpdateOkStep ==
    op'.name = "update_status" /\ ret'.kind = "ok" /\ events' # events

\* C3: right after a successful create the history of the new shipment is one
\* event, pending with message "Shipment created"; every successful
\* update_status adds exactly one event to the history of its shipment and
\* leaves the history length of every other shipment unchanged.
C3_HistoryGrowsByOne ==
    [][/\ CreateOkStep =>
             \A tn \in TrackingNumbers :
                 tn = ret'.val[1].tracking_number =>
                     \A r \in HistoryOutcomes(tn)' :
                         /\ r.kind = "ok"
                         /\ Len(r.val) = 1
                         /\ r.val[1].status = "pending"
                         /\ r.val[1].message = "Shipment created"
       /\ UpdateOkStep =>
             \A i \in 1..Len(deliveries) :
                 HistoryLen(deliveries[i].id)' =
                     HistoryLen(deliveries[i].id)
                       + (IF deliveries[i].tracking_number = op'.tn
                          THEN 1 ELSE 0)]_vars

\* C3 witness: a successful update_status on one of two stored shipments; its
\* history has two events, the other shipment's history still has one
C3_Witness ==
    /\ op.name = "update_status" /\ ret.kind = "ok"
    /\ Len(deliveries) = 2
    /\ HistoryLen(Row(op.tn).id) = 2
    /\ \E i \in 1..2 : /\ deliveries[i].tracking_number # op.tn
                       /\ HistoryLen(deliveries[i].id) = 1

\* C4: after successful calls only, the statuses history returns are pending
\* followed by the new_status arguments of the update_status calls on that
\* shipment in call order, and the last one is the shipment's current status.
C4_HistoryIsCallOrder ==
    (op.name = "history" /\ ret.kind = "ok" /\ Exists(op.tn)) =>
        /\ Statuses(ret.val) = trail[Row(op.tn).id]
        /\ ret.val[Len(ret.val)].status = Row(op.tn).status

\* C5: actual_delivery is non-null exactly for the shipments whose row was at
\* some time set to delivered by update_status, and no step makes a non-null
\* actual_delivery null again.
C5_ActualIffEverDelivered ==
    /\ [](\A i \in 1..Len(deliveries) :
             deliveries[i].actual_delivery # NULL
                 <=> "delivered" \in Range(trail[i]))
    /\ [][\A i \in 1..Len(deliveries) :
             deliveries[i].actual_delivery # NULL
                 => deliveries'[i].actual_delivery # NULL]_vars

\* C5 witness: a shipment that was delivered and then moved on to another
\* status still carries its actual_delivery
C5_Witness ==
    \E i \in 1..Len(deliveries) :
        /\ deliveries[i].status = "in_transit"
        /\ "delivered" \in Range(trail[i])
        /\ deliveries[i].actual_delivery # NULL
        /\ op.name = "update_status" /\ op.status = "in_transit"
        /\ op.tn = deliveries[i].tracking_number

\* C6 as stated: once actual_delivery is non-null no later call changes its
\* value, a repeated update_status to delivered included.
C6_ActualSetOnce ==
    [][\A i \in 1..Len(deliveries) :
          deliveries[i].actual_delivery # NULL
              => deliveries'[i].actual_delivery
                     = deliveries[i].actual_delivery]_vars

\* C6 amended: once actual_delivery is non-null, the only calls that change
\* its value are update_status calls to delivered on that shipment, which set
\* it to the time of the call; no other call changes or clears it.
C6_ActualKeptOrRestamped ==
    [][\A i \in 1..Len(deliveries) :
          deliveries[i].actual_delivery # NULL
              => \/ deliveries'[i].actual_delivery
                        = deliveries[i].actual_delivery
                 \/ /\ op'.name = "update_status"
                    /\ op'.status = "delivered"
                    /\ op'.tn = deliveries[i].tracking_number
                    /\ deliveries'[i].actual_delivery = clock
                    /\ deliveries'[i].actual_delivery # NULL]_vars

\* C6 witness: a shipment delivered at time 0 (its delivered event carries
\* timestamp 0) was set to delivered again and now carries a later time
C6_Witness ==
    \E i \in 1..Len(deliveries) :
        /\ op.name = "update_status" /\ op.status = "delivered"
        /\ op.tn = deliveries[i].tracking_number
        /\ \E j \in EventIdx(deliveries[i].id) :
              events[j].status = "delivered" /\ events[j].timestamp = 0
        /\ deliveries[i].actual_delivery > 0

C8_NoEmptyParty ==
    \A i \in 1..Len(deliveries) :
        /\ deliveries[i].sender # ""
        /\ deliveries[i].recipient # ""
        /\ deliveries[i].destination # ""

\* C9: no two stored shipments have the same tracking number, whatever the
\* generator yields.
C9_TrackingNumberUnique ==
    \A i, j \in 1..Len(deliveries) :
        i # j => deliveries[i].tracking_number # deliveries[j].tracking_number

\* C9 witness: the generator yielded a stored number and create was refused
C9_Witness ==
    /\ op.name = "create" /\ ret = Raised("IntegrityError")
    /\ Exists(op.tn)

\* C10: when the number create generated collides, create retries with the
\* next number the generator yields and returns a shipment as soon as one of
\* them is unused (tn is the number drawn, next any number a further draw
\* could yield).
C10_CreateRetriesOnCollision ==
    [][\A args \in CreateArgs, tn \in TrackingNumbers, lag \in 0..1 :
          (/\ op'.name = "create"
           /\ Create(args, tn, "none", lag)
           /\ \E next \in TrackingNumbers : ~Exists(next))
              => ret'.kind = "ok"]_vars

\* C11: update_status has no transition guard: on a stored shipment in any
\* status, a call with any declared status that the storage layer carries out
\* returns the shipment and leaves that status as the shipment's status.
C11_NoTransitionGuard ==
    [][\A tn \in TrackingNumbers :
          (/\ op'.name = "update_status" /\ op'.tn = tn
           /\ op'.status \in DeliveryStatus
           /\ Exists(tn))
              => /\ ret'.kind = "ok"
                 /\ ret'.val[1].status = op'.status
                 /\ GetOutcome(tn)' = ret'
                 /\ Row(tn)'.status = op'.status]_vars

\* C11 witness: a shipment that had been delivered was set back to pending
C11_Witness ==
    /\ op.name = "update_status" /\ op.status = "pending" /\ ret.kind = "ok"
    /\ Row(op.tn).status = "pending"
    /\ trail[Row(op.tn).id] = <<"pending", "delivered", "pending">>

\* C12: list_deliveries with a status returns exactly the stored shipments in
\* that status, without a status every stored shipment, each once and with
\* updated_at never increasing along the result.
C12_ListExactAndOrdered ==
    op.name = "list" =>
        /\ ret.kind = "ok"
        /\ {ret.val[k] : k \in 1..Len(ret.val)}
              = {deliveries[i] : i \in ListIdx(op.status)}
        /\ Len(ret.val) = Cardinality(ListIdx(op.status))
        /\ \A a, b \in 1..Len(ret.val) :
              a < b => ret.val[a].updated_at >= ret.val[b].updated_at

\* the creates that returned a shipment: each one logged "Shipment created"
CreatedOk ==
    Cardinality({k \in 1..Len(events) : events[k].message = "Shipment created"})

\* C13: stats returns total = the number of shipments successfully created,
\* active = the number of stored shipments not delivered, returned or
\* cancelled, and by_status = exactly the statuses held by some shipment with
\* their counts, which sum to total.
C13_StatsMatchStore ==
    op.name = "stats" =>
        /\ ret.kind = "ok"
        /\ ret.val[1].total = CreatedOk
        /\ ret.val[1].active
              = Cardinality({i \in 1..Len(deliveries) : IsActive(deliveries[i])})
        /\ DOMAIN ret.val[1].by_status
              = {deliveries[i].status : i \in 1..Len(deliveries)}
        /\ \A st \in DOMAIN ret.val[1].by_status :
              ret.val[1].by_status[st]
                 = Cardinality({i \in 1..Len(deliveries) : deliveries[i].status = st})
        /\ ret.val[1].total = Len(deliveries)

\* C14: right after a create that returned a shipment, get on the returned
\* tracking number yields a shipment with status pending, no actual_delivery,
\* created_at equal to updated_at, and the sender, recipient and destination
\* that were passed to create.
C14_GetAfterCreate ==
    [][\A args \in CreateArgs, tn \in TrackingNumbers, lag \in 0..1 :
          (/\ CreateOkStep /\ op'.tn = tn
           /\ Create(args, tn, "none", lag))
              => /\ ret'.val[1].tracking_number = tn
                 /\ GetOutcome(tn)'.kind = "ok"
                 /\ GetOutcome(tn)'.val[1].status = "pending"
                 /\ GetOutcome(tn)'.val[1].actual_delivery = NULL
                 /\ GetOutcome(tn)'.val[1].created_at
                       = GetOutcome(tn)'.val[1].updated_at
                 /\ GetOutcome(tn)'.val[1].sender = args[1]
                 /\ GetOutcome(tn)'.val[1].recipient = args[2]
                 /\ GetOutcome(tn)'.val[1].destination = args[3]]_vars

C14_Witness ==
    /\ op.name = "create" /\ ret.kind = "ok" /\ Len(deliveries) = 2
    /\ GetOutcome(op.tn) = ret
    /\ ret.val[1].sender = "Alice" /\ ret.val[1].recipient = "Bob"
    /\ ret.val[1].created_at = 1

\* the columns of deliveries that update_status does not name in its SET list
FrameFields ==
    {"id", "tracking_number", "sender", "recipient", "destination",
     "weight_kg", "estimated_delivery", "courier", "notes", "created_at"}

\* C15: update_status(tn, ...) leaves the id, tracking_number, sender,
\* recipient, destination, weight_kg, estimated_delivery, courier, notes and
\* created_at of the shipment numbered tn unchanged, changes its
\* actual_delivery only when the new status is delivered, and leaves every
\* field of every other shipment unchanged; no row is added or removed.
C15_UpdateStatusFrame ==
    [][op'.name = "update_status" =>
          /\ Len(deliveries') = Len(deliveries)
          /\ \A i \in 1..Len(deliveries) :
                IF deliveries[i].tracking_number = op'.tn
                THEN /\ \A f \in FrameFields :
                           deliveries'[i][f] = deliveries[i][f]
                     /\ op'.status # "delivered" =>
                           deliveries'[i].actual_delivery
                              = deliveries[i].actual_delivery
                ELSE deliveries'[i] = deliveries[i]]_vars

C15_Witness ==
    /\ op.name = "update_status" /\ op.status = "delivered" /\ ret.kind = "ok"
    /\ Len(deliveries) = 2
    /\ Row(op.tn).status = "delivered" /\ Row(op.tn).actual_delivery = 1
    /\ Row(op.tn).created_at = 0 /\ Row(op.tn).updated_at = 1
    /\ \E i \in 1..2 : deliveries[i].status = "pending"

\* the methods that only read
ReadOps == {"get", "list", "history", "stats", "export"}

\* C16: in every step, every stored tracking event keeps its place and all of
\* its fields (id, delivery_id, status, location, message, timestamp), every
\* stored shipment stays stored under its id and tracking number, and a step
\* of get, list, history, stats or export changes neither table.
C16_AppendOnly ==
    [][/\ Len(events') >= Len(events)
       /\ \A k \in 1..Len(events) : events'[k] = events[k]
       /\ Len(deliveries') >= Len(deliveries)
       /\ \A i \in 1..Len(deliveries) :
             /\ deliveries'[i].id = deliveries[i].id
             /\ deliveries'[i].tracking_number = deliveries[i].tracking_number
       /\ op'.name \in ReadOps =>
             /\ deliveries' = deliveries
             /\ events' = events]_vars

C16_Witness ==
    /\ op.name = "export" /\ ret.kind = "ok"
    /\ Len(deliveries) = 2 /\ Len(events) = 3
    /\ \E k \in 1..3 : events[k].status = "delivered"

\* C17: for a tracking number of no stored shipment, get returns None and
\* history returns the empty list, neither raising; for the tracking number of
\* a stored shipment, every event history returns has that shipment's id as
\* its delivery_id.
C17_UnknownAbsentHistoryOwn ==
    /\ (op.name = "get" /\ ~Exists(op.tn)) => ret = ReturnedNone
    /\ (op.name = "history" /\ ~Exists(op.tn)) => ret = Returned(<<>>)
    /\ (op.name = "history" /\ Exists(op.tn) /\ ret.kind = "ok") =>
          \A k \in 1..Len(ret.val) : ret.val[k].delivery_id = Row(op.tn).id

C17_Witness ==
    /\ op.name = "history" /\ Exists(op.tn) /\ ret.kind = "ok"
    /\ Len(ret.val) = 2
    /\ Len(events) = 3
    /\ \A k \in 1..2 : ret.val[k].delivery_id = Row(op.tn).id

\* C18: whatever string update_status is passed as new_status, the stored
\* status of every shipment is one of the eight DeliveryStatus values, and
\* get, list_deliveries and stats never fail to read a stored shipment back.
C18_StoredStatusDeclared ==
    /\ \A i \in 1..Len(deliveries) : deliveries[i].status \in DeliveryStatus
    /\ op.name \in {"get", "list", "stats"} => ret.kind # "raise"

\* C19: once two processes have each completed one update_status on the same
\* shipment, the status stored for the shipment is the status of the event
\* appended last for it.
C19_StatusIsLastEvent ==
    \A tn \in TrackingNumbers :
        (/\ Exists(tn)
         /\ \A p \in Procs : procs[p].pc = "done" /\ procs[p].tn = tn)
            => LET I == EventIdx(Row(tn).id)
                   last == CHOOSE m \in I : \A k \in I : k <= m
               IN  /\ I # {}
                   /\ events[last].status = Row(tn).status
====
